---- MODULE Spec2Model ----
(***************************************************************************)
(* Model of the gasless swap script src/index.ts: the run of main() as a   *)
(* state machine (quote, approval, signing, signature splitting, submit,   *)
(* status polling) together with the signature utilities splitSignature    *)
(* and padSignature.  Strings are sequences of one-character strings, so   *)
(* that slicing, padding, hex parsing and lower-casing are computed.       *)
(***************************************************************************)
EXTENDS Integers, Sequences, FiniteSets, TLC

(***************************************************************************)
(* Strings                                                                 *)
(***************************************************************************)

\* n copies of the character c
Rep(c, n) == [i \in 1..n |-> c]

\* String.prototype.slice(from, to) with 0-based non-negative indices
Slice(str, from, to) ==
    LET hi == IF to < Len(str) THEN to ELSE Len(str)
    IN  IF from >= hi THEN <<>> ELSE [i \in 1..(hi - from) |-> str[from + i]]

\* String.prototype.slice(from) with a 0-based non-negative index
SliceFrom(str, from) == Slice(str, from, Len(str))

\* String.prototype.padStart(width, "0")
padStart(str, width) ==
    IF Len(str) >= width THEN str ELSE Rep("0", width - Len(str)) \o str

Digits == <<"0", "1", "2", "3", "4", "5", "6", "7", "8", "9">>
LowerHex == Digits \o <<"a", "b", "c", "d", "e", "f">>
UpperHex == Digits \o <<"A", "B", "C", "D", "E", "F">>

Range(f) == {f[i] : i \in DOMAIN f}

IsHexChar(c) == c \in Range(LowerHex) \cup Range(UpperHex)

\* the value 0..15 of a hex character
HexVal(c) ==
    IF c \in Range(LowerHex)
    THEN (CHOOSE i \in 1..16 : LowerHex[i] = c) - 1
    ELSE (CHOOSE i \in 1..16 : UpperHex[i] = c) - 1

IsHexString(str) == \A i \in 1..Len(str) : IsHexChar(str[i])

\* the characters the regular expression class \w accepts, among those used here
IsWordChar(c) == IsHexChar(c) \/ c \in {"x", "X", "_", "g", "z"}

UpperAlpha == <<"C", "O", "N", "F", "I", "R", "M", "E", "D", "P", "G", "S", "U", "A", "L">>
LowerAlpha == <<"c", "o", "n", "f", "i", "r", "m", "e", "d", "p", "g", "s", "u", "a", "l">>

\* String.prototype.toLowerCase(), character by character
toLowerCase(str) ==
    [i \in 1..Len(str) |->
        IF str[i] \in Range(UpperAlpha)
        THEN LowerAlpha[CHOOSE k \in 1..Len(UpperAlpha) : UpperAlpha[k] = str[i]]
        ELSE str[i]]

(***************************************************************************)
(* Big integers: a non-negative integer of any width is the sequence of    *)
(* its hex digit values (0..15), most significant first, without leading   *)
(* zeros; the empty sequence is zero.                                      *)
(***************************************************************************)

RECURSIVE StripZeros(_)
StripZeros(ns) ==
    IF ns = <<>> THEN <<>>
    ELSE IF ns[1] = 0 THEN StripZeros(Tail(ns))
    ELSE ns

\* bytes (as a hex string) to a big integer, as noble's slcNum does
BigFromHex(str) == StripZeros([i \in 1..Len(str) |-> HexVal(str[i])])

\* a < b on big integers
BigLess(a, b) ==
    \/ Len(a) < Len(b)
    \/ /\ Len(a) = Len(b)
       /\ \E i \in 1..Len(a) :
            /\ a[i] < b[i]
            /\ \A j \in 1..(i - 1) : a[j] = b[j]

\* the order n of the secp256k1 group
CURVE_n ==
    BigFromHex(Rep("f", 31) \o <<"e">> \o
        <<"b", "a", "a", "e", "d", "c", "e", "6", "a", "f", "4", "8", "a", "0", "3", "b",
          "b", "f", "d", "2", "5", "e", "8", "c", "d", "0", "3", "6", "4", "1", "4", "1">>)

\* noble's isWithinCurveOrder: 0 < num < n
isWithinCurveOrder(num) == num # <<>> /\ BigLess(num, CURVE_n)

\* viem's toHex of a bigint: "0x" and the lower-case digits, no leading zeros
toHex(num) ==
    <<"0", "x">> \o (IF num = <<>> THEN <<"0">> ELSE [i \in 1..Len(num) |-> LowerHex[num[i] + 1]])


(***************************************************************************)
(* Signature utilities (src/index.ts, "Signature Utilities")               *)
(***************************************************************************)

hexLength == 64

\* noble's secp256k1.Signature.fromCompact on a hex string without prefix:
\* the string must be hex of exactly 64 bytes, and r and s lie in 1..n-1
fromCompact(hex) ==
    IF ~IsHexString(hex) \/ Len(hex) % 2 # 0
    THEN [ok |-> FALSE, error |-> "hex string expected", r |-> <<>>, s |-> <<>>]
    ELSE IF Len(hex) # 128
    THEN [ok |-> FALSE, error |-> "compactSignature expected 64 bytes", r |-> <<>>, s |-> <<>>]
    ELSE LET r == BigFromHex(Slice(hex, 0, 64))
             s == BigFromHex(Slice(hex, 64, 128))
         IN  IF ~isWithinCurveOrder(r)
             THEN [ok |-> FALSE, error |-> "r must be 0 < r < CURVE.n", r |-> <<>>, s |-> <<>>]
             ELSE IF ~isWithinCurveOrder(s)
             THEN [ok |-> FALSE, error |-> "s must be 0 < s < CURVE.n", r |-> <<>>, s |-> <<>>]
             ELSE [ok |-> TRUE, error |-> "", r |-> r, s |-> s]

RECURSIVE HexToNat(_)
HexToNat(str) ==
    IF str = <<>> THEN 0
    ELSE 16 * HexToNat(SubSeq(str, 1, Len(str) - 1)) + HexVal(str[Len(str)])

\* viem's hexToNumber on "0x" followed by digits: BigInt() rejects an empty
\* or non-hex digit string with a SyntaxError
hexToNumber(digits) ==
    IF digits = <<>> \/ ~IsHexString(digits)
    THEN [ok |-> FALSE, error |-> "SyntaxError: Cannot convert to a BigInt", value |-> 0]
    ELSE [ok |-> TRUE, error |-> "", value |-> HexToNat(digits)]

\* mutant: the named group starts one character early and takes in the x
hexExtractor_groupFromPrefix(str) ==
    IF /\ Len(str) >= 3
       /\ str[1] = "0"
       /\ str[2] \in {"x", "X"}
       /\ \A i \in 3..Len(str) : IsWordChar(str[i])
    THEN SliceFrom(str, 1)
    ELSE <<>>

\* the regular expression /^0(x|X)(?<hex>\w+)$/ : the named group, or <<>>
hexExtractor(str) ==
    IF /\ Len(str) >= 3
       /\ str[1] = "0"
       /\ str[2] \in {"x", "X"}
       /\ \A i \in 3..Len(str) : IsWordChar(str[i])
    THEN SliceFrom(str, 2)
    ELSE <<>>

\* mutant: the field is returned as toHex made it, without padding
padField_noPad(field) == field

\* one field of padSignature: re-pad when the digits are not hexLength long
padField(field) ==
    LET hex == hexExtractor(field)
    IN  IF hex # <<>> /\ Len(hex) # hexLength
        THEN <<"0", "x">> \o padStart(hex, hexLength)
        ELSE field

padSignature(signature) ==
    [signature EXCEPT !.r = padField(signature.r), !.s = padField(signature.s)]

NoSignature == [v |-> 0, r |-> <<>>, s |-> <<>>, recoveryParam |-> 0]

\* mutant: recoveryParam is v % 2
splitSignature_parityAsIs(signatureHex) ==
    LET compact == fromCompact(Slice(signatureHex, 2, 130))
        v == hexToNumber(SliceFrom(signatureHex, 130))
    IN  IF ~compact.ok
        THEN [ok |-> FALSE, error |-> compact.error, sig |-> NoSignature]
        ELSE IF ~v.ok
        THEN [ok |-> FALSE, error |-> v.error, sig |-> NoSignature]
        ELSE [ok |-> TRUE, error |-> "",
              sig |-> padSignature([v |-> v.value,
                                    r |-> toHex(compact.r),
                                    s |-> toHex(compact.s),
                                    recoveryParam |-> v.value % 2])]

\* mutant: r and s change places
splitSignature_swapsRS(signatureHex) ==
    LET compact == fromCompact(Slice(signatureHex, 2, 130))
        v == hexToNumber(SliceFrom(signatureHex, 130))
    IN  IF ~compact.ok
        THEN [ok |-> FALSE, error |-> compact.error, sig |-> NoSignature]
        ELSE IF ~v.ok
        THEN [ok |-> FALSE, error |-> v.error, sig |-> NoSignature]
        ELSE [ok |-> TRUE, error |-> "",
              sig |-> padSignature([v |-> v.value,
                                    r |-> toHex(compact.s),
                                    s |-> toHex(compact.r),
                                    recoveryParam |-> 1 - (v.value % 2)])]

\* splitSignature: the split signature, or the error thrown
splitSignature(signatureHex) ==
    LET compact == fromCompact(Slice(signatureHex, 2, 130))
        v == hexToNumber(SliceFrom(signatureHex, 130))
    IN  IF ~compact.ok
        THEN [ok |-> FALSE, error |-> compact.error, sig |-> NoSignature]
        ELSE IF ~v.ok
        THEN [ok |-> FALSE, error |-> v.error, sig |-> NoSignature]
        ELSE [ok |-> TRUE, error |-> "",
              sig |-> padSignature([v |-> v.value,
                                    r |-> toHex(compact.r),
                                    s |-> toHex(compact.s),
                                    recoveryParam |-> 1 - (v.value % 2)])]


(***************************************************************************)
(* Configuration and data of a run                                         *)
(***************************************************************************)

SELL_TOKEN == "0x833589fCD6eDb6E08f4c7C32D4f71b54bdA02913"
CHAIN_ID == 8453
maxAttempts == 60
EIP712 == 2

\* BigInt() of a decimal string
RECURSIVE DecToNat(_)
DecToNat(str) ==
    IF str = <<>> THEN 0
    ELSE 10 * DecToNat(SubSeq(str, 1, Len(str) - 1))
         + ((CHOOSE i \in 1..10 : Digits[i] = str[Len(str)]) - 1)

\* an optional value is tagged "undefined", "null" or "object"
Truthy(x) == x.kind = "object"

NoPayload(k) == [kind |-> k, type |-> "", hash |-> "", eip712 |-> ""]
PermitPayload ==
    [kind |-> "object", type |-> "permit", hash |-> "0xAPPROVALHASH", eip712 |-> "PermitTypedData"]
TradePayload ==
    [kind |-> "object", type |-> "settler_metatransaction", hash |-> "0xTRADEHASH",
     eip712 |-> "TradeTypedData"]

NoAllowance(k) == [kind |-> k, actual |-> <<>>, spender |-> ""]
Allowance(actual) == [kind |-> "object", actual |-> actual, spender |-> "0xSPENDER"]

SellQuantity == <<"1", "0", "0", "0", "0", "0", "0">>

\* the approval fields a quote response can carry
ApprovalChoices == {NoPayload("undefined"), NoPayload("null"), PermitPayload}

\* the issues a quote response can carry: no issues object, issues without an
\* allowance entry, or an allowance entry whose actual is below, equal to or
\* above the sell quantity
IssuesChoices ==
    {[kind |-> "undefined", allowance |-> NoAllowance("undefined")],
     [kind |-> "object", allowance |-> NoAllowance("null")],
     [kind |-> "object", allowance |-> Allowance(<<"0">>)],
     [kind |-> "object", allowance |-> Allowance(SellQuantity)],
     [kind |-> "object", allowance |-> Allowance(<<"2">> \o Rep("0", 6))]}

\* the GaslessQuoteResult bodies the relay can answer with
Quotes ==
    {[approval |-> a, issues |-> i, liquidity_available |-> l,
      sell_quantity |-> SellQuantity, allowance_target |-> "0xTARGET",
      trade |-> TradePayload, zid |-> "zid"] :
        a \in ApprovalChoices, i \in IssuesChoices, l \in BOOLEAN}

NoQuote ==
    [approval |-> NoPayload("undefined"),
     issues |-> [kind |-> "undefined", allowance |-> NoAllowance("undefined")],
     liquidity_available |-> FALSE, sell_quantity |-> <<>>, allowance_target |-> "",
     trade |-> NoPayload("undefined"), zid |-> ""]

\* quote.issues?.allowance
issuesAllowance(q) ==
    IF Truthy(q.issues) THEN q.issues.allowance ELSE NoAllowance("undefined")

\* HTTP status codes a relay response can carry, and Response.ok
\* the (status, body text) of the HTTP responses the relay can give
Responses ==
    {[status |-> 200, body |-> "json"],
     [status |-> 422, body |-> "no route"], [status |-> 500, body |-> ""]}
ResponseOk(status) == status >= 200 /\ status <= 299

NoError == [message |-> "", status |-> 0, body |-> ""]

(***************************************************************************)
(* Raw signatures a signer can hand back                                   *)
(***************************************************************************)

RFull == Rep("a", 64)
RLeadingZeros == Rep("0", 2) \o Rep("b", 62)
SFull == Rep("1", 64)
SLeadingZerosUpper == Rep("0", 4) \o Rep("C", 60)

Hx(body) == <<"0", "x">> \o body

\* well-formed 65-byte signatures
ValidSignatures ==
    {Hx(RFull \o SFull \o <<"1", "b">>),
     Hx(RLeadingZeros \o SLeadingZerosUpper \o <<"1", "c">>),
     Hx(RFull \o SLeadingZerosUpper \o <<"0", "0">>),
     Hx(RLeadingZeros \o SFull \o <<"0", "1">>)}

\* signatures that are not 65 bytes long, or not hex
MalformedSignatures ==
    {Hx(RFull \o SFull),                               \* 64 bytes: no v
     Hx(RFull \o Rep("1", 60)),                        \* 62 bytes
     Hx(RFull \o SFull \o <<"1", "b", "1", "c">>),     \* 66 bytes
     Hx(RFull \o SFull \o <<"z", "z">>),               \* v is not hex
     Hx(Rep("g", 64) \o SFull \o <<"1", "b">>)}        \* r is not hex

\* 65 bytes of hex whose r or s is outside 1..n-1
OutOfRangeSignatures ==
    {Hx(Rep("0", 64) \o SFull \o <<"1", "b">>),
     Hx(RFull \o Rep("f", 64) \o <<"1", "c">>)}

RawSignatures == ValidSignatures \cup MalformedSignatures \cup OutOfRangeSignatures

\* the signatures the two signers of a run hand back
SignerOutputs ==
    {Hx(RFull \o SFull \o <<"1", "b">>),
     Hx(RLeadingZeros \o SLeadingZerosUpper \o <<"1", "c">>)}
    \cup MalformedSignatures \cup OutOfRangeSignatures

StatusValues ==
    {<<"C", "o", "n", "f", "i", "r", "m", "e", "d">>,
     <<"c", "o", "n", "f", "i", "r", "m", "e", "d">>,
     <<"C", "O", "N", "F", "I", "R", "M", "E", "D">>,
     <<"p", "e", "n", "d", "i", "n", "g">>,
     <<"s", "u", "c", "c", "e", "e", "d", "e", "d">>}


(***************************************************************************)
(* The run of main()                                                       *)
(***************************************************************************)

VARIABLES
    pc,                   \* the position of main()
    quote,                \* const quote
    nQuote,               \* quote requests issued
    userOps,              \* calls handed to sendUserOperation
    receipts,             \* user operation receipts received
    sigRequests,          \* signTypedData requests, in order
    approvalSig,          \* let approvalSig (<<>> is null)
    tradeSig,             \* const tradeSig
    splitLog,             \* completed splitSignature calls, in order
    approvalDataToSubmit, \* let approvalDataToSubmit
    tradeDataToSubmit,    \* const tradeDataToSubmit
    submitted,            \* bodies posted to /gasless/submit
    submitResult,         \* const submitResult (its tradeHash)
    confirmed,            \* let confirmed
    attempts,             \* let attempts
    nStatus,              \* status requests issued
    lastStatus,           \* status.status of the last response
    report,               \* the outcome main() prints
    lastResponse,         \* the last HTTP response (const response)
    exitCode,             \* process exit code, -1 while running
    error,                \* the error main().catch receives
    tradeHashLog,         \* the trade hash main() prints after the submit
    elapsed,              \* seconds slept since polling began
    timer,                \* seconds left of the running setTimeout, 0 if none
    codec                 \* a call of the signature utilities on their own

vars ==
    <<pc, quote, nQuote, userOps, receipts, sigRequests, approvalSig, tradeSig,
      splitLog, approvalDataToSubmit, tradeDataToSubmit, submitted, submitResult,
      confirmed, attempts, nStatus, lastStatus, report, lastResponse, exitCode, error,
      tradeHashLog, elapsed, timer, codec>>

NoSubmitData == [kind |-> "null", type |-> "", hash |-> "", eip712 |-> "",
                 signature |-> [r |-> <<>>, s |-> <<>>, v |-> 0, recoveryParam |-> 0,
                                signatureType |-> 0]]

\* no call of the signature utilities on their own is under way
IdleCodec ==
    [stage |-> "idle", raw |-> <<>>, ok |-> FALSE, error |-> "", sig |-> NoSignature,
     body |-> NoSubmitData, repadded |-> NoSignature]

\* the state of main() when it starts
MainInit ==
    /\ pc = "quote"
    /\ quote = NoQuote
    /\ nQuote = 0
    /\ userOps = <<>>
    /\ receipts = 0
    /\ sigRequests = <<>>
    /\ approvalSig = <<>>
    /\ tradeSig = <<>>
    /\ splitLog = <<>>
    /\ approvalDataToSubmit = NoSubmitData
    /\ tradeDataToSubmit = NoSubmitData
    /\ submitted = <<>>
    /\ submitResult = ""
    /\ confirmed = FALSE
    /\ attempts = 0
    /\ nStatus = 0
    /\ lastStatus = <<>>
    /\ report = ""
    /\ lastResponse = [status |-> 0, body |-> ""]
    /\ exitCode = -1
    /\ error = NoError
    /\ tradeHashLog = ""
    /\ elapsed = 0
    /\ timer = 0

Init ==
    /\ MainInit
    /\ codec = IdleCodec

\* a thrown error reaches main().catch: it is logged and the process exits 1
Abort(err) ==
    /\ pc' = "aborted"
    /\ exitCode' = 1
    /\ error' = err

\* the Error the three relay functions throw on a response that is not ok
RelayError(prefix, status, body) == [message |-> prefix, status |-> status, body |-> body]

\* an error thrown by a collaborator or a library
Thrown(message) == [message |-> message, status |-> 0, body |-> ""]

\* step 3: getGaslessQuote
GetQuote ==
    /\ pc = "quote"
    /\ nQuote' = nQuote + 1
    /\ \E response \in Responses :
        /\ lastResponse' = response
        /\ IF ~ResponseOk(response.status)
           THEN /\ Abort(RelayError("Failed to fetch quote", response.status, response.body))
                /\ UNCHANGED quote
           ELSE /\ \E q \in Quotes : quote' = q
                /\ pc' = "approval"
                /\ UNCHANGED <<exitCode, error>>
    /\ UNCHANGED <<userOps, receipts, sigRequests, approvalSig, tradeSig, splitLog,
                   approvalDataToSubmit, tradeDataToSubmit, submitted, submitResult,
                   confirmed, attempts, nStatus, lastStatus, report>>
    /\ UNCHANGED codec
    /\ UNCHANGED tradeHashLog
    /\ UNCHANGED <<elapsed, timer>>

\* mutant: the branch condition without the test of quote.approval
needsOnchainApproval_ignoresPermit(q) == Truthy(issuesAllowance(q))

\* mutant: the branch condition without the test of issues.allowance
needsOnchainApproval_ignoresAllowance(q) == ~Truthy(q.approval)

\* step 4: the condition of the on-chain approval branch
needsOnchainApproval(q) == Truthy(issuesAllowance(q)) /\ ~Truthy(q.approval)

\* mutant: approve for the quote's allowance target instead of the reported spender
approveCall_wrongSpender(q) ==
    [to |-> SELL_TOKEN, value |-> 0, functionName |-> "approve",
     args |-> <<q.allowance_target, DecToNat(q.sell_quantity)>>]

\* the approve call handed to sendUserOperation
approveCall(q) ==
    [to |-> SELL_TOKEN, value |-> 0, functionName |-> "approve",
     args |-> <<q.issues.allowance.spender, DecToNat(q.sell_quantity)>>]

\* mutant: the receipt of the approval user operation is not awaited
HandleApproval_noWait ==
    /\ pc = "approval"
    /\ IF needsOnchainApproval(quote)
       THEN /\ userOps' = Append(userOps, approveCall(quote))
            /\ \/ pc' = "permit" /\ UNCHANGED <<exitCode, error>>
               \/ Abort(Thrown("sendUserOperation failed"))
       ELSE /\ pc' = "permit"
            /\ UNCHANGED <<userOps, exitCode, error>>
    /\ UNCHANGED <<quote, nQuote, receipts, sigRequests, approvalSig, tradeSig, splitLog,
                   approvalDataToSubmit, tradeDataToSubmit, submitted, submitResult,
                   confirmed, attempts, nStatus, lastStatus, report,
                   lastResponse>>
    /\ UNCHANGED codec
    /\ UNCHANGED tradeHashLog
    /\ UNCHANGED <<elapsed, timer>>

\* step 4: send the approval user operation, or skip the branch
HandleApproval ==
    /\ pc = "approval"
    /\ IF needsOnchainApproval(quote)
       THEN /\ userOps' = Append(userOps, approveCall(quote))
            /\ \/ pc' = "waitReceipt" /\ UNCHANGED <<exitCode, error>>
               \/ Abort(Thrown("sendUserOperation failed"))
       ELSE /\ pc' = "permit"
            /\ UNCHANGED <<userOps, exitCode, error>>
    /\ UNCHANGED <<quote, nQuote, receipts, sigRequests, approvalSig, tradeSig, splitLog,
                   approvalDataToSubmit, tradeDataToSubmit, submitted, submitResult,
                   confirmed, attempts, nStatus, lastStatus, report,
                   lastResponse>>
    /\ UNCHANGED codec
    /\ UNCHANGED tradeHashLog
    /\ UNCHANGED <<elapsed, timer>>

\* mutant: a fresh quote is fetched once the approval is mined
WaitReceipt_requotes ==
    /\ pc = "waitReceipt"
    /\ \/ /\ receipts' = receipts + 1
          /\ pc' = "quote"
          /\ UNCHANGED <<exitCode, error>>
       \/ /\ Abort(Thrown("waitForUserOperationReceipt failed"))
          /\ UNCHANGED receipts
    /\ UNCHANGED <<quote, nQuote, userOps, sigRequests, approvalSig, tradeSig, splitLog,
                   approvalDataToSubmit, tradeDataToSubmit, submitted, submitResult,
                   confirmed, attempts, nStatus, lastStatus, report,
                   lastResponse>>
    /\ UNCHANGED codec
    /\ UNCHANGED tradeHashLog
    /\ UNCHANGED <<elapsed, timer>>

\* step 4: waitForUserOperationReceipt
WaitReceipt ==
    /\ pc = "waitReceipt"
    /\ \/ /\ receipts' = receipts + 1
          /\ pc' = "permit"
          /\ UNCHANGED <<exitCode, error>>
       \/ /\ Abort(Thrown("waitForUserOperationReceipt failed"))
          /\ UNCHANGED receipts
    /\ UNCHANGED <<quote, nQuote, userOps, sigRequests, approvalSig, tradeSig, splitLog,
                   approvalDataToSubmit, tradeDataToSubmit, submitted, submitResult,
                   confirmed, attempts, nStatus, lastStatus, report,
                   lastResponse>>
    /\ UNCHANGED codec
    /\ UNCHANGED tradeHashLog
    /\ UNCHANGED <<elapsed, timer>>

\* the permit signature request: walletClient.signTypedData with the account
permitRequest(q) ==
    [client |-> "walletClient", account |-> "account", typedData |-> q.approval.eip712]

\* step 5: sign the permit with the externally-owned account, if there is one
SignPermit ==
    /\ pc = "permit"
    /\ IF Truthy(quote.approval)
       THEN /\ sigRequests' = Append(sigRequests, permitRequest(quote))
            /\ \/ /\ \E sig \in SignerOutputs : approvalSig' = sig
                  /\ pc' = "tradeSign"
                  /\ UNCHANGED <<exitCode, error>>
               \/ /\ Abort(Thrown("signTypedData failed"))
                  /\ UNCHANGED approvalSig
       ELSE /\ pc' = "tradeSign"
            /\ UNCHANGED <<sigRequests, approvalSig, exitCode, error>>
    /\ UNCHANGED <<quote, nQuote, userOps, receipts, tradeSig, splitLog,
                   approvalDataToSubmit, tradeDataToSubmit, submitted, submitResult,
                   confirmed, attempts, nStatus, lastStatus, report,
                   lastResponse>>
    /\ UNCHANGED codec
    /\ UNCHANGED tradeHashLog
    /\ UNCHANGED <<elapsed, timer>>

\* mutant: the trade is signed with the wallet client and the owner account
tradeRequest_withOwner(q) ==
    [client |-> "walletClient", account |-> "account", typedData |-> q.trade.eip712]

\* mutant: the trade signature is requested over the approval's typed data
tradeRequest_signsApprovalData(q) ==
    [client |-> "smartAccountClient", account |-> "smartAccount", typedData |-> q.approval.eip712]

\* the trade signature request: smartAccountClient.signTypedData with the smart account
tradeRequest(q) ==
    [client |-> "smartAccountClient", account |-> "smartAccount", typedData |-> q.trade.eip712]

\* mutant: the raw trade signature goes to the submit step unsplit
SignTrade_skipsSplit ==
    /\ pc = "tradeSign"
    /\ sigRequests' = Append(sigRequests, tradeRequest(quote))
    /\ \/ /\ \E sig \in SignerOutputs : tradeSig' = sig
          /\ pc' = "submit"
          /\ UNCHANGED <<exitCode, error>>
       \/ /\ Abort(Thrown("signTypedData failed"))
          /\ UNCHANGED tradeSig
    /\ UNCHANGED <<quote, nQuote, userOps, receipts, approvalSig, splitLog,
                   approvalDataToSubmit, tradeDataToSubmit, submitted, submitResult,
                   confirmed, attempts, nStatus, lastStatus, report,
                   lastResponse>>
    /\ UNCHANGED codec
    /\ UNCHANGED tradeHashLog
    /\ UNCHANGED <<elapsed, timer>>

\* step 6: sign the trade with the smart account
SignTrade ==
    /\ pc = "tradeSign"
    /\ sigRequests' = Append(sigRequests, tradeRequest(quote))
    /\ \/ /\ \E sig \in SignerOutputs : tradeSig' = sig
          /\ pc' = "splitApproval"
          /\ UNCHANGED <<exitCode, error>>
       \/ /\ Abort(Thrown("signTypedData failed"))
          /\ UNCHANGED tradeSig
    /\ UNCHANGED <<quote, nQuote, userOps, receipts, approvalSig, splitLog,
                   approvalDataToSubmit, tradeDataToSubmit, submitted, submitResult,
                   confirmed, attempts, nStatus, lastStatus, report,
                   lastResponse>>
    /\ UNCHANGED codec
    /\ UNCHANGED tradeHashLog
    /\ UNCHANGED <<elapsed, timer>>


\* the entry of the submit body built from a payload of the quote and a
\* split signature: { type, hash, eip712, signature: { ...split, v: Number(v),
\* signatureType } }
submitData(payload, split) ==
    [kind |-> "object", type |-> payload.type, hash |-> payload.hash,
     eip712 |-> payload.eip712,
     signature |-> [r |-> split.r, s |-> split.s, v |-> split.v,
                    recoveryParam |-> split.recoveryParam, signatureType |-> EIP712]]

\* step 7: split the permit signature, if there is one
SplitApproval ==
    /\ pc = "splitApproval"
    /\ IF Truthy(quote.approval) /\ approvalSig # <<>>
       THEN LET split == splitSignature(approvalSig)
            IN  IF split.ok
                THEN /\ splitLog' = Append(splitLog,
                            [of |-> "approval", raw |-> approvalSig, out |-> split.sig])
                     /\ approvalDataToSubmit' = submitData(quote.approval, split.sig)
                     /\ pc' = "splitTrade"
                     /\ UNCHANGED <<exitCode, error>>
                ELSE /\ Abort(Thrown(split.error))
                     /\ UNCHANGED <<splitLog, approvalDataToSubmit>>
       ELSE /\ pc' = "splitTrade"
            /\ UNCHANGED <<splitLog, approvalDataToSubmit, exitCode, error>>
    /\ UNCHANGED <<quote, nQuote, userOps, receipts, sigRequests, approvalSig, tradeSig,
                   tradeDataToSubmit, submitted, submitResult,
                   confirmed, attempts, nStatus, lastStatus, report,
                   lastResponse>>
    /\ UNCHANGED codec
    /\ UNCHANGED tradeHashLog
    /\ UNCHANGED <<elapsed, timer>>

\* step 7: split the trade signature and build the trade entry
SplitTrade ==
    /\ pc = "splitTrade"
    /\ LET split == splitSignature(tradeSig)
       IN  IF split.ok
           THEN /\ splitLog' = Append(splitLog,
                       [of |-> "trade", raw |-> tradeSig, out |-> split.sig])
                /\ tradeDataToSubmit' = submitData(quote.trade, split.sig)
                /\ pc' = "submit"
                /\ UNCHANGED <<exitCode, error>>
           ELSE /\ Abort(Thrown(split.error))
                /\ UNCHANGED <<splitLog, tradeDataToSubmit>>
    /\ UNCHANGED <<quote, nQuote, userOps, receipts, sigRequests, approvalSig, tradeSig,
                   approvalDataToSubmit, submitted, submitResult,
                   confirmed, attempts, nStatus, lastStatus, report,
                   lastResponse>>
    /\ UNCHANGED codec
    /\ UNCHANGED tradeHashLog
    /\ UNCHANGED <<elapsed, timer>>

\* the trade hashes a submit response can carry
TradeHashes == {"0xSUBMITTEDTRADEHASH"}

\* mutant: the body never carries the approval entry
submitBody_noApproval == [chainId |-> CHAIN_ID, approval |-> NoSubmitData, trade |-> tradeDataToSubmit]

\* const submitBody
submitBody == [chainId |-> CHAIN_ID, approval |-> approvalDataToSubmit, trade |-> tradeDataToSubmit]

\* mutant: the trade hash of the submit response is not printed
Submit_noHashLog ==
    /\ pc = "submit"
    /\ submitted' = Append(submitted, submitBody)
    /\ \E response \in Responses :
        /\ lastResponse' = response
        /\ IF ~ResponseOk(response.status)
           THEN /\ Abort(RelayError("Failed to submit", response.status, response.body))
                /\ UNCHANGED submitResult
           ELSE /\ \E tradeHash \in TradeHashes : submitResult' = tradeHash
                /\ pc' = "poll"
                /\ UNCHANGED <<exitCode, error>>
    /\ UNCHANGED tradeHashLog
    /\ UNCHANGED <<quote, nQuote, userOps, receipts, sigRequests, approvalSig, tradeSig,
                   splitLog, approvalDataToSubmit, tradeDataToSubmit,
                   confirmed, attempts, nStatus, lastStatus, report>>
    /\ UNCHANGED codec
    /\ UNCHANGED <<elapsed, timer>>

\* step 7: submitGasless
Submit ==
    /\ pc = "submit"
    /\ submitted' = Append(submitted, submitBody)
    /\ \E response \in Responses :
        /\ lastResponse' = response
        /\ IF ~ResponseOk(response.status)
           THEN /\ Abort(RelayError("Failed to submit", response.status, response.body))
                /\ UNCHANGED <<submitResult, tradeHashLog>>
           ELSE /\ \E tradeHash \in TradeHashes :
                     /\ submitResult' = tradeHash
                     /\ tradeHashLog' = tradeHash
                /\ pc' = "poll"
                /\ UNCHANGED <<exitCode, error>>
    /\ UNCHANGED <<quote, nQuote, userOps, receipts, sigRequests, approvalSig, tradeSig,
                   splitLog, approvalDataToSubmit, tradeDataToSubmit,
                   confirmed, attempts, nStatus, lastStatus, report>>
    /\ UNCHANGED codec
    /\ UNCHANGED <<elapsed, timer>>

\* setTimeout(resolve, 2000): the length of the sleep, in seconds
sleepSeconds == 2

\* mutant: the loop test admits one attempt too many
PollSleep_offByOne ==
    /\ pc = "poll"
    /\ ~confirmed /\ attempts <= maxAttempts
    /\ attempts' = attempts + 1
    /\ timer' = sleepSeconds
    /\ pc' = "sleeping"
    /\ UNCHANGED elapsed
    /\ UNCHANGED <<quote, nQuote, userOps, receipts, sigRequests, approvalSig, tradeSig,
                   splitLog, approvalDataToSubmit, tradeDataToSubmit, submitted,
                   submitResult, confirmed, nStatus, lastStatus, report, lastResponse,
                   exitCode, error>>
    /\ UNCHANGED codec
    /\ UNCHANGED tradeHashLog

\* mutant: the loop forgets attempts++
PollSleep_noCount ==
    /\ pc = "poll"
    /\ ~confirmed /\ attempts < maxAttempts
    /\ attempts' = attempts
    /\ timer' = sleepSeconds
    /\ pc' = "sleeping"
    /\ UNCHANGED elapsed
    /\ UNCHANGED <<quote, nQuote, userOps, receipts, sigRequests, approvalSig, tradeSig,
                   splitLog, approvalDataToSubmit, tradeDataToSubmit, submitted,
                   submitResult, confirmed, nStatus, lastStatus, report, lastResponse,
                   exitCode, error>>
    /\ UNCHANGED codec
    /\ UNCHANGED tradeHashLog

\* step 8: the loop test, attempts++ and the start of the 2 second sleep
PollSleep ==
    /\ pc = "poll"
    /\ ~confirmed /\ attempts < maxAttempts
    /\ attempts' = attempts + 1
    /\ timer' = sleepSeconds
    /\ pc' = "sleeping"
    /\ UNCHANGED elapsed
    /\ UNCHANGED <<quote, nQuote, userOps, receipts, sigRequests, approvalSig, tradeSig,
                   splitLog, approvalDataToSubmit, tradeDataToSubmit, submitted,
                   submitResult, confirmed, nStatus, lastStatus, report, lastResponse,
                   exitCode, error>>
    /\ UNCHANGED codec
    /\ UNCHANGED tradeHashLog

\* mutant: the timer resolves after the first second
SleepTick_firesEarly ==
    /\ pc = "sleeping"
    /\ timer > 0
    /\ timer' = timer - 1
    /\ elapsed' = elapsed + 1
    /\ pc' = "fetchStatus"
    /\ UNCHANGED <<quote, nQuote, userOps, receipts, sigRequests, approvalSig, tradeSig,
                   splitLog, approvalDataToSubmit, tradeDataToSubmit, submitted,
                   submitResult, confirmed, attempts, nStatus, lastStatus, report,
                   lastResponse, exitCode, error, tradeHashLog, codec>>

\* step 8: one second of the sleep passes; the timer resolves when none is left
SleepTick ==
    /\ pc = "sleeping"
    /\ timer > 0
    /\ timer' = timer - 1
    /\ elapsed' = elapsed + 1
    /\ pc' = IF timer = 1 THEN "fetchStatus" ELSE "sleeping"
    /\ UNCHANGED <<quote, nQuote, userOps, receipts, sigRequests, approvalSig, tradeSig,
                   splitLog, approvalDataToSubmit, tradeDataToSubmit, submitted,
                   submitResult, confirmed, attempts, nStatus, lastStatus, report,
                   lastResponse, exitCode, error, tradeHashLog, codec>>

\* mutant: the comparison without toLowerCase()
isConfirmed_caseSensitive(status) == status = <<"c", "o", "n", "f", "i", "r", "m", "e", "d">>

\* status.status.toLowerCase() === "confirmed"
isConfirmed(status) == toLowerCase(status) = <<"c", "o", "n", "f", "i", "r", "m", "e", "d">>

\* mutant: a status response that is not ok is taken for one more pending tick
FetchStatus_ignoresFailure ==
    /\ pc = "fetchStatus"
    /\ nStatus' = nStatus + 1
    /\ \E response \in Responses :
        /\ lastResponse' = response
        /\ IF ~ResponseOk(response.status)
           THEN UNCHANGED <<lastStatus, confirmed, report>>
           ELSE \E s \in StatusValues :
                  /\ lastStatus' = s
                  /\ IF isConfirmed(s)
                     THEN confirmed' = TRUE /\ report' = "confirmed"
                     ELSE UNCHANGED <<confirmed, report>>
        /\ pc' = "poll"
        /\ UNCHANGED <<exitCode, error>>
    /\ UNCHANGED <<quote, nQuote, userOps, receipts, sigRequests, approvalSig, tradeSig,
                   splitLog, approvalDataToSubmit, tradeDataToSubmit, submitted,
                   submitResult, attempts>>
    /\ UNCHANGED codec
    /\ UNCHANGED tradeHashLog
    /\ UNCHANGED <<elapsed, timer>>

\* step 8: getGaslessStatus and the test of its answer
FetchStatus ==
    /\ pc = "fetchStatus"
    /\ nStatus' = nStatus + 1
    /\ \E response \in Responses :
        /\ lastResponse' = response
        /\ IF ~ResponseOk(response.status)
           THEN /\ Abort(RelayError("Failed to fetch status", response.status, response.body))
                /\ UNCHANGED <<lastStatus, confirmed, report>>
           ELSE /\ \E s \in StatusValues :
                     /\ lastStatus' = s
                     /\ IF isConfirmed(s)
                        THEN confirmed' = TRUE /\ report' = "confirmed"
                        ELSE UNCHANGED <<confirmed, report>>
                /\ pc' = "poll"
                /\ UNCHANGED <<exitCode, error>>
    /\ UNCHANGED <<quote, nQuote, userOps, receipts, sigRequests, approvalSig, tradeSig,
                   splitLog, approvalDataToSubmit, tradeDataToSubmit, submitted,
                   submitResult, attempts>>
    /\ UNCHANGED codec
    /\ UNCHANGED tradeHashLog
    /\ UNCHANGED <<elapsed, timer>>

\* mutant: the not-confirmed report depends on the attempt count alone
Finish_reportsByCount ==
    /\ pc = "poll"
    /\ confirmed \/ attempts >= maxAttempts
    /\ report' = IF attempts >= maxAttempts THEN "notConfirmed" ELSE report
    /\ pc' = "done"
    /\ exitCode' = 0
    /\ UNCHANGED <<quote, nQuote, userOps, receipts, sigRequests, approvalSig, tradeSig,
                   splitLog, approvalDataToSubmit, tradeDataToSubmit, submitted,
                   submitResult, confirmed, attempts, nStatus, lastStatus, lastResponse,
                   error>>
    /\ UNCHANGED codec
    /\ UNCHANGED tradeHashLog
    /\ UNCHANGED <<elapsed, timer>>

\* the loop is left: report when not confirmed, and main() returns
Finish ==
    /\ pc = "poll"
    /\ confirmed \/ attempts >= maxAttempts
    /\ report' = IF ~confirmed THEN "notConfirmed" ELSE report
    /\ pc' = "done"
    /\ exitCode' = 0
    /\ UNCHANGED <<quote, nQuote, userOps, receipts, sigRequests, approvalSig, tradeSig,
                   splitLog, approvalDataToSubmit, tradeDataToSubmit, submitted,
                   submitResult, confirmed, attempts, nStatus, lastStatus, lastResponse,
                   error>>
    /\ UNCHANGED codec
    /\ UNCHANGED tradeHashLog
    /\ UNCHANGED <<elapsed, timer>>

Next ==
    \/ GetQuote
    \/ HandleApproval
    \/ WaitReceipt
    \/ SignPermit
    \/ SignTrade
    \/ SplitApproval
    \/ SplitTrade
    \/ Submit
    \/ PollSleep
    \/ SleepTick
    \/ FetchStatus
    \/ Finish

Spec == Init /\ [][Next]_vars

(***************************************************************************)
(* The signature utilities on their own: splitSignature applied to a raw   *)
(* signature, the submit body entry built from its result, and             *)
(* padSignature applied once more to its result                            *)
(***************************************************************************)

MaxLeadingZeros == 3

\* 32 bytes of hex with k leading zero digits, in lower or upper case
PaddedWords(fill) ==
    {Rep("0", k) \o Rep(d, 64 - k) : k \in 0..MaxLeadingZeros, d \in fill}
        \cup {Rep("0", 63) \o <<"7">>}

VTails == {<<"1", "b">>, <<"1", "c">>, <<"0", "0">>, <<"0", "1">>}

\* the well-formed 65-byte signatures the utilities are applied to
CodecValidInputs ==
    {Hx(r \o s \o v) : r \in PaddedWords({"b", "C"}), s \in PaddedWords({"1", "E"}),
                        v \in VTails}

CodecInputs == CodecValidInputs \cup RawSignatures

CodecInit ==
    /\ MainInit
    /\ \E raw \in CodecInputs : codec = [IdleCodec EXCEPT !.stage = "input", !.raw = raw]

\* await splitSignature(raw)
CodecSplit ==
    /\ codec.stage = "input"
    /\ LET split == splitSignature(codec.raw)
       IN  codec' = [codec EXCEPT !.stage = IF split.ok THEN "split" ELSE "threw",
                                  !.ok = split.ok, !.error = split.error,
                                  !.sig = split.sig]
    /\ UNCHANGED <<pc, quote, nQuote, userOps, receipts, sigRequests, approvalSig, tradeSig,
                   splitLog, approvalDataToSubmit, tradeDataToSubmit, submitted,
                   submitResult, confirmed, attempts, nStatus, lastStatus, report,
                   lastResponse, exitCode, error, tradeHashLog, elapsed, timer>>

\* the entry of the submit body built from the split signature
CodecBuild ==
    /\ codec.stage = "split"
    /\ codec' = [codec EXCEPT !.stage = "body", !.body = submitData(TradePayload, codec.sig)]
    /\ UNCHANGED <<pc, quote, nQuote, userOps, receipts, sigRequests, approvalSig, tradeSig,
                   splitLog, approvalDataToSubmit, tradeDataToSubmit, submitted,
                   submitResult, confirmed, attempts, nStatus, lastStatus, report,
                   lastResponse, exitCode, error, tradeHashLog, elapsed, timer>>

\* padSignature applied to the signature splitSignature returned
CodecRepad ==
    /\ codec.stage = "body"
    /\ codec' = [codec EXCEPT !.stage = "repadded", !.repadded = padSignature(codec.sig)]
    /\ UNCHANGED <<pc, quote, nQuote, userOps, receipts, sigRequests, approvalSig, tradeSig,
                   splitLog, approvalDataToSubmit, tradeDataToSubmit, submitted,
                   submitResult, confirmed, attempts, nStatus, lastStatus, report,
                   lastResponse, exitCode, error, tradeHashLog, elapsed, timer>>

CodecNext ==
    \/ CodecSplit
    \/ CodecBuild
    \/ CodecRepad

CodecSpec == CodecInit /\ [][CodecNext]_vars


(***************************************************************************)
(* Properties                                                              *)
(***************************************************************************)

\* a quote has been received
QuoteReceived == quote \in Quotes

\* the positions of signTypedData requests for the permit and for the trade
PermitRequests == {i \in DOMAIN sigRequests : sigRequests[i].typedData = "PermitTypedData"}
TradeRequests == {i \in DOMAIN sigRequests : sigRequests[i].typedData = "TradeTypedData"}

\* main() is past step 5, or stopped in it
PastPermitStep == pc \notin {"quote", "approval", "waitReceipt", "permit"}

\* C1: with a non-null approval descriptor in the quote, whatever
\* issues.allowance says, no user operation is ever sent, at most one permit
\* signature is requested, and once step 5 has run exactly one has been,
\* from the wallet client with the owning account.
C1_PermitNoOnchainApproval ==
    (QuoteReceived /\ Truthy(quote.approval)) =>
        /\ userOps = <<>>
        /\ receipts = 0
        /\ Cardinality(PermitRequests) <= 1
        /\ \A i \in PermitRequests :
              sigRequests[i].client = "walletClient" /\ sigRequests[i].account = "account"
        /\ PastPermitStep => Cardinality(PermitRequests) = 1

C1_Witness ==
    /\ Truthy(quote.approval)
    /\ Truthy(issuesAllowance(quote))
    /\ pc = "done"
    /\ Cardinality(PermitRequests) = 1

\* the allowance reported by the quote is numerically below the sell quantity
AllowanceBelowSell(q) ==
    /\ Truthy(issuesAllowance(q))
    /\ DecToNat(issuesAllowance(q).actual) < DecToNat(q.sell_quantity)

\* C2: with no approval descriptor and issues.allowance.actual below the
\* sell quantity, at most one user operation is sent, it is
\* approve(0xSPENDER, 1000000) on the sell token, it has been sent as soon as
\* step 4 has run and so before any trade signature request, and no permit
\* signature is requested.
C2_OnchainApprovalWhenAllowanceLow ==
    (QuoteReceived /\ ~Truthy(quote.approval) /\ AllowanceBelowSell(quote)) =>
        /\ Len(userOps) <= 1
        /\ pc \notin {"quote", "approval"} => Len(userOps) = 1
        /\ \A i \in DOMAIN userOps :
              userOps[i] = [to |-> "0x833589fCD6eDb6E08f4c7C32D4f71b54bdA02913",
                            value |-> 0, functionName |-> "approve",
                            args |-> <<"0xSPENDER", 1000000>>]
        /\ TradeRequests # {} => Len(userOps) = 1 /\ receipts = 1
        /\ PermitRequests = {}
        /\ \A i \in DOMAIN sigRequests : sigRequests[i].account # "account"

C2_Witness ==
    /\ ~Truthy(quote.approval)
    /\ AllowanceBelowSell(quote)
    /\ Len(userOps) = 1
    /\ TradeRequests # {}
    /\ pc = "done"

\* C3 as stated: with no approval descriptor, and issues.allowance absent or
\* its actual not below the sell quantity, no user operation is sent and no
\* permit signature is requested.
C3_Original ==
    (QuoteReceived /\ ~Truthy(quote.approval) /\ ~AllowanceBelowSell(quote)) =>
        userOps = <<>> /\ PermitRequests = {}

\* C3 as amended: with no approval descriptor and issues.allowance absent or
\* null, no user operation is sent and no permit signature is requested.
C3_NoApprovalStepWithoutAllowanceIssue ==
    (QuoteReceived /\ ~Truthy(quote.approval) /\ ~Truthy(issuesAllowance(quote))) =>
        /\ userOps = <<>>
        /\ receipts = 0
        /\ PermitRequests = {}
        /\ \A i \in DOMAIN sigRequests : sigRequests[i].account # "account"

C3_Witness ==
    /\ QuoteReceived
    /\ ~Truthy(quote.approval)
    /\ ~Truthy(issuesAllowance(quote))
    /\ TradeRequests # {}
    /\ userOps = <<>>
    /\ pc = "done"

\* C4: every signing request for the trade payload goes to the smart account
\* client with the smart account, every signing request for the permit
\* payload goes to the wallet client with the owning account, and there is
\* no other pairing.
C4_SignerIdentities ==
    \A i \in DOMAIN sigRequests :
        \/ /\ sigRequests[i].typedData = "TradeTypedData"
           /\ sigRequests[i].client = "smartAccountClient"
           /\ sigRequests[i].account = "smartAccount"
        \/ /\ sigRequests[i].typedData = "PermitTypedData"
           /\ sigRequests[i].client = "walletClient"
           /\ sigRequests[i].account = "account"

C4_Witness ==
    /\ PermitRequests # {}
    /\ TradeRequests # {}
    /\ submitted # <<>>


\* the signature fields of a submit body entry are those a completed
\* splitSignature call of that kind returned for the raw signature
FromCompletedSplit(entry, kind, raw) ==
    \E i \in DOMAIN splitLog :
        /\ splitLog[i].of = kind
        /\ splitLog[i].raw = raw
        /\ entry.signature.r = splitLog[i].out.r
        /\ entry.signature.s = splitLog[i].out.s
        /\ entry.signature.v = splitLog[i].out.v
        /\ entry.signature.recoveryParam = splitLog[i].out.recoveryParam

\* r and s are "0x" and 64 hex digits, recoveryParam is 0 or 1
IsNormalized(signature) ==
    /\ Len(signature.r) = 66 /\ Len(signature.s) = 66
    /\ Slice(signature.r, 0, 2) = <<"0", "x">> /\ IsHexString(SliceFrom(signature.r, 2))
    /\ Slice(signature.s, 0, 2) = <<"0", "x">> /\ IsHexString(SliceFrom(signature.s, 2))
    /\ signature.recoveryParam \in {0, 1}

\* C5: whenever a submit request has been issued, splitSignature has
\* completed for the trade signature and, if a permit signature exists, for
\* the permit signature, and the signatures in the body are the split ones.
C5_SubmitAfterNormalization ==
    \A k \in DOMAIN submitted :
        /\ submitted[k].trade.kind = "object"
        /\ FromCompletedSplit(submitted[k].trade, "trade", tradeSig)
        /\ IsNormalized(submitted[k].trade.signature)
        /\ approvalSig # <<>> =>
              /\ submitted[k].approval.kind = "object"
              /\ FromCompletedSplit(submitted[k].approval, "approval", approvalSig)
              /\ IsNormalized(submitted[k].approval.signature)

C5_Witness ==
    /\ submitted # <<>>
    /\ approvalSig # <<>>
    /\ Len(splitLog) = 2

ConfirmedSpellings ==
    {<<"C", "o", "n", "f", "i", "r", "m", "e", "d">>,
     <<"c", "o", "n", "f", "i", "r", "m", "e", "d">>,
     <<"C", "O", "N", "F", "I", "R", "M", "E", "D">>}

\* C6: a status response that reads Confirmed, confirmed or CONFIRMED sets
\* confirmed, and from then on the only step is the end of the run with the
\* confirmed outcome: no further status request is issued.
C6_StopOnFirstConfirmed ==
    [][ /\ (nStatus' = nStatus + 1 /\ ResponseOk(lastResponse'.status)
              /\ lastStatus' \in ConfirmedSpellings)
            => (confirmed' /\ pc' = "poll")
        /\ confirmed =>
              /\ nStatus' = nStatus
              /\ attempts' = attempts
              /\ pc' = "done"
              /\ report' = "confirmed"
              /\ exitCode' = 0 ]_vars

C6_Witness ==
    /\ pc = "done"
    /\ confirmed
    /\ lastStatus = <<"C", "O", "N", "F", "I", "R", "M", "E", "D">>
    /\ nStatus = 3
    /\ report = "confirmed"

\* C7: the number of status requests never exceeds 60, and when 60 status
\* responses have come and none was confirmed the next step ends the run
\* normally (exit code 0, no error) with the not-confirmed outcome.
C7_PollingCap ==
    /\ [](nStatus <= 60 /\ attempts <= 60)
    /\ [](pc = "done" /\ ~confirmed =>
            nStatus = 60 /\ exitCode = 0 /\ error = NoError /\ report = "notConfirmed")
    /\ [][(pc = "poll" /\ nStatus = 60 /\ ~confirmed) =>
            (pc' = "done" /\ exitCode' = 0 /\ error' = NoError
             /\ report' = "notConfirmed" /\ nStatus' = 60)]_vars

C7_Witness ==
    /\ pc = "done"
    /\ nStatus = 60
    /\ ~confirmed
    /\ exitCode = 0
    /\ report = "notConfirmed"


\* the run was aborted with the error a relay function throws for the last,
\* not ok, response: its message prefix, HTTP status and body text
AbortedWith(prefix) ==
    /\ pc = "aborted"
    /\ exitCode = 1
    /\ error = [message |-> prefix, status |-> lastResponse.status,
                body |-> lastResponse.body]

\* C8: a quote, submit or status response that is not 2xx aborts the run with
\* an error carrying its status code and body text; the request was issued
\* once and nothing follows it: after a failed quote no user operation,
\* signature request or submit, after a failed submit no status request,
\* after a failed status request no further one and no not-confirmed
\* outcome; an aborted run takes no further step.
C8_RelayFailureAborts ==
    [][ /\ pc # "aborted"
        /\ (nQuote' = nQuote + 1 /\ ~ResponseOk(lastResponse'.status)) =>
              /\ AbortedWith("Failed to fetch quote")'
              /\ nQuote' = 1 /\ userOps' = <<>> /\ sigRequests' = <<>>
              /\ submitted' = <<>> /\ nStatus' = 0
        /\ (Len(submitted') = Len(submitted) + 1 /\ ~ResponseOk(lastResponse'.status)) =>
              /\ AbortedWith("Failed to submit")'
              /\ Len(submitted') = 1 /\ nStatus' = 0
        /\ (nStatus' = nStatus + 1 /\ ~ResponseOk(lastResponse'.status)) =>
              /\ AbortedWith("Failed to fetch status")'
              /\ report' = "" /\ ~confirmed'
              /\ lastStatus' = lastStatus ]_vars

C8_Witness ==
    /\ AbortedWith("Failed to fetch status")
    /\ error.status = 422
    /\ error.body = "no route"
    /\ nStatus = 2

\* C9 as stated: a quote whose liquidity_available is false aborts the run,
\* and no user operation, signature request or submit is made for it.
C9_NoLiquidityAborts ==
    (QuoteReceived /\ ~quote.liquidity_available) =>
        /\ userOps = <<>>
        /\ sigRequests = <<>>
        /\ submitted = <<>>
        /\ pc \in {"approval", "aborted"}

\* a raw signature of exactly 65 bytes: "0x" and 130 hex digits
IsHex65Bytes(sig) ==
    /\ Len(sig) = 132
    /\ Slice(sig, 0, 2) = <<"0", "x">>
    /\ IsHexString(SliceFrom(sig, 2))

\* C10 as stated: splitSignature throws for every raw signature that is not
\* 65 bytes of valid hex, so every split that completed was of such a
\* signature, and a submit request is only issued with such signatures.
C10_MalformedSignatureRaises ==
    /\ \A i \in DOMAIN splitLog : IsHex65Bytes(splitLog[i].raw)
    /\ submitted # <<>> => IsHex65Bytes(tradeSig)


\* splitSignature returned for a raw signature of 65 bytes of hex
SplitOfValid == codec.stage \in {"split", "body", "repadded"} /\ IsHex65Bytes(codec.raw)

\* "0x" and exactly 64 hex digits
IsPaddedWord(field) ==
    /\ Len(field) = 66
    /\ field[1] = "0" /\ field[2] = "x"
    /\ IsHexString(SliceFrom(field, 2))

\* C11: for every valid 65-byte raw signature, with or without leading zero
\* digits in r or s, the r and s splitSignature returns are "0x" and exactly
\* 64 hex digits.
C11_PaddedTo64 ==
    SplitOfValid => IsPaddedWord(codec.sig.r) /\ IsPaddedWord(codec.sig.s)

C11_Witness ==
    /\ SplitOfValid
    /\ Slice(codec.raw, 2, 5) = <<"0", "0", "0">>
    /\ Slice(codec.raw, 66, 68) = <<"0", "1">>
    /\ Slice(codec.sig.r, 2, 6) = <<"0", "0", "0", "b">>

\* the last byte of the raw signature
VTail == SliceFrom(codec.raw, 130)

\* C12: for v = 27, 28, 0, 1 the recoveryParam is 0, 1, 1, 0: it is
\* 1 - (v mod 2), and always 0 or 1.
C12_RecoveryParam ==
    (SplitOfValid /\ VTail \in VTails) =>
        /\ VTail = <<"1", "b">> => codec.sig.v = 27 /\ codec.sig.recoveryParam = 0
        /\ VTail = <<"1", "c">> => codec.sig.v = 28 /\ codec.sig.recoveryParam = 1
        /\ VTail = <<"0", "0">> => codec.sig.v = 0 /\ codec.sig.recoveryParam = 1
        /\ VTail = <<"0", "1">> => codec.sig.v = 1 /\ codec.sig.recoveryParam = 0
        /\ codec.sig.recoveryParam = 1 - (codec.sig.v % 2)
        /\ codec.sig.recoveryParam \in {0, 1}

C12_Witness ==
    /\ SplitOfValid
    /\ VTail = <<"1", "c">>
    /\ codec.sig.recoveryParam = 1

\* the digits of a field without "0x" and without leading zeros
RECURSIVE StripLeadingZeroDigits(_)
StripLeadingZeroDigits(digits) ==
    IF digits # <<>> /\ digits[1] = "0" THEN StripLeadingZeroDigits(Tail(digits)) ELSE digits

StripPadding(field) == StripLeadingZeroDigits(SliceFrom(field, 2))

\* the values of the hex digits: two strings of hex are the same bytes when
\* these agree
Nibbles(digits) == [i \in 1..Len(digits) |-> HexVal(digits[i])]

\* C13: for every valid 65-byte raw signature, the r and s of the submit body
\* entry, stripped of their padding and padded again to 64 digits, are the
\* bytes 0-31 and 32-63 of the raw signature.
C13_RoundTrip ==
    (codec.stage \in {"body", "repadded"} /\ IsHex65Bytes(codec.raw)) =>
        /\ Nibbles(padStart(StripPadding(codec.body.signature.r), 64))
              = Nibbles(Slice(codec.raw, 2, 66))
        /\ Nibbles(padStart(StripPadding(codec.body.signature.s), 64))
              = Nibbles(Slice(codec.raw, 66, 130))

C13_Witness ==
    /\ codec.stage = "body"
    /\ IsHex65Bytes(codec.raw)
    /\ Slice(codec.raw, 2, 4) = <<"0", "0">>
    /\ Slice(codec.raw, 66, 69) = <<"0", "0", "E">>
    /\ Len(StripPadding(codec.body.signature.s)) = 62

\* C14: padSignature applied to a signature splitSignature returned gives
\* back the same r, s, v and recoveryParam.
C14_PadIdempotent ==
    codec.stage = "repadded" =>
        /\ codec.repadded.r = codec.sig.r
        /\ codec.repadded.s = codec.sig.s
        /\ codec.repadded.v = codec.sig.v
        /\ codec.repadded.recoveryParam = codec.sig.recoveryParam

C14_Witness ==
    /\ codec.stage = "repadded"
    /\ IsPaddedWord(codec.repadded.r)
    /\ Slice(codec.raw, 2, 4) = <<"0", "0">>


\* the three terminal outcomes of a run
OutcomeConfirmed == pc = "done" /\ exitCode = 0 /\ confirmed /\ report = "confirmed"
OutcomeUnconfirmed == pc = "done" /\ exitCode = 0 /\ ~confirmed /\ report = "notConfirmed"
OutcomeAborted == pc = "aborted" /\ exitCode = 1 /\ error # NoError /\ report = ""

Terminal == pc \in {"done", "aborted"}

\* the positions of main() in order, the last one being the polling loop
StageOf(p) ==
    CASE p = "quote" -> 9
      [] p = "approval" -> 8
      [] p = "waitReceipt" -> 7
      [] p = "permit" -> 6
      [] p = "tradeSign" -> 5
      [] p = "splitApproval" -> 4
      [] p = "splitTrade" -> 3
      [] p = "submit" -> 2
      [] p \in {"poll", "sleeping", "fetchStatus"} -> 1
      [] OTHER -> 0

\* a bound on the number of steps a run still has to take
StepsLeft ==
    IF Terminal THEN 0
    ELSE IF StageOf(pc) > 1 THEN StageOf(pc) + 4 * 60
    ELSE 1 + 4 * (60 - attempts)
           + (IF pc = "sleeping" THEN 1 + timer ELSE IF pc = "fetchStatus" THEN 1 ELSE 0)

\* the two positions whose step is a pure computation on the signature
\* already held (split and rebuild): both branches of the step are total
PureSteps == {"splitApproval", "splitTrade"}

\* C15: a run that is not at a terminal outcome always has a pending step
\* (a call that returns or fails, a timer that fires, a pure computation),
\* every step brings it strictly closer to the end, so it ends once every
\* pending call settles; a terminal state is exactly one of confirmed,
\* unconfirmed and aborted, and no step leaves it.
C15_RunTerminates ==
    /\ []((~Terminal /\ pc \notin PureSteps) => ENABLED Next)
    /\ [](StepsLeft >= 0)
    /\ [][StepsLeft' < StepsLeft]_vars
    /\ [](Terminal =>
            /\ OutcomeConfirmed \/ OutcomeUnconfirmed \/ OutcomeAborted
            /\ ~(OutcomeConfirmed /\ OutcomeUnconfirmed)
            /\ ~(OutcomeConfirmed /\ OutcomeAborted)
            /\ ~(OutcomeUnconfirmed /\ OutcomeAborted))
    /\ [](~Terminal => exitCode = -1)

C15_Witness ==
    /\ OutcomeUnconfirmed
    /\ userOps # <<>>
    /\ elapsed = 120

\* C16: a run that leaves the polling loop without a confirmation has used
\* the whole attempt budget, ends normally with the not-confirmed report,
\* which the confirmed run never prints, and its output carries the trade
\* hash the submit returned.
C16_UnconfirmedCarriesHash ==
    /\ (pc = "done" /\ ~confirmed) =>
            /\ attempts = maxAttempts
            /\ nStatus = maxAttempts
            /\ report = "notConfirmed"
            /\ submitResult \in TradeHashes
            /\ tradeHashLog = submitResult
            /\ exitCode = 0
    /\ (pc = "done" /\ confirmed) =>
            /\ report = "confirmed"
            /\ tradeHashLog = submitResult

C16_Witness ==
    /\ pc = "done"
    /\ ~confirmed
    /\ attempts = maxAttempts
    /\ tradeHashLog \in TradeHashes
    /\ toLowerCase(lastStatus) # toLowerCase(<<"c","o","n","f","i","r","m","e","d">>)

\* whole quotients of the elapsed time by the polling interval
FloorDiv(a, b) == a \div b
CeilDiv(a, b) == (a + b - 1) \div b

\* the points of the polling loop at which no status request is in flight
BetweenFetches == pc \in {"poll", "sleeping"}

\* C17 as stated: at every point of the polling loop the fetches performed
\* so far are ceil(elapsed / interval), one fetch per tick.
C17_Original ==
    /\ BetweenFetches => nStatus = CeilDiv(elapsed, sleepSeconds)
    /\ pc = "poll" => nStatus = attempts

\* C17: at every point of the polling loop where no status request is in
\* flight the fetches performed so far are floor(elapsed / interval); at the
\* end of each tick the elapsed time is a whole number of intervals, so the
\* count is ceil(elapsed / interval) there too; each tick sleeps first and
\* then performs exactly one fetch.
C17_FetchesPerElapsed ==
    /\ BetweenFetches => nStatus = FloorDiv(elapsed, sleepSeconds)
    /\ pc = "poll" =>
            /\ elapsed % sleepSeconds = 0
            /\ nStatus = CeilDiv(elapsed, sleepSeconds)
            /\ nStatus = attempts
    /\ pc = "sleeping" => nStatus = attempts - 1
    /\ pc = "fetchStatus" =>
            /\ nStatus = attempts - 1
            /\ nStatus + 1 = FloorDiv(elapsed, sleepSeconds)
    /\ pc = "done" => nStatus = attempts /\ elapsed = sleepSeconds * nStatus

C17_Witness ==
    /\ pc = "sleeping"
    /\ elapsed = 3
    /\ nStatus = 1
    /\ CeilDiv(elapsed, sleepSeconds) = 2

\* C18: the position of main() never moves back, and outside the polling
\* loop every step leaves its position for a later one; the quote, the
\* trade signature and the submit are each requested at most once; the
\* quote precedes the approval step, the approval step (user operation or
\* permit signature) precedes the trade signature, the trade signature
\* precedes the submit, and the submit precedes every status request.
C18_StrictlyForward ==
    /\ [][/\ StageOf(pc') <= StageOf(pc)
          /\ StageOf(pc) > 1 => StageOf(pc') < StageOf(pc)]_vars
    /\ [](nQuote <= 1 /\ Cardinality(TradeRequests) <= 1 /\ Len(submitted) <= 1)
    /\ [][nQuote' # nQuote =>
            userOps = <<>> /\ sigRequests = <<>> /\ submitted = <<>> /\ nStatus = 0]_vars
    /\ [][userOps' # userOps =>
            nQuote = 1 /\ sigRequests = <<>> /\ submitted = <<>> /\ nStatus = 0]_vars
    /\ [][sigRequests' # sigRequests =>
            /\ nQuote = 1 /\ submitted = <<>> /\ nStatus = 0
            /\ TradeRequests = {}
            /\ Len(userOps) = receipts]_vars
    /\ [][submitted' # submitted =>
            nQuote = 1 /\ Cardinality(TradeRequests) = 1 /\ nStatus = 0]_vars
    /\ [][nStatus' # nStatus => nQuote = 1 /\ Len(submitted) = 1]_vars

C18_Witness ==
    /\ nStatus = 2
    /\ Len(submitted) = 1
    /\ PermitRequests = {1}
    /\ TradeRequests = {2}
    /\ nQuote = 1

\* the failures of the on-chain approval branch
ApprovalFailures == {"sendUserOperation failed", "waitForUserOperationReceipt failed"}

\* C19: on the on-chain approval branch no typed-data signature is requested
\* and main() does not reach the trade signing before the receipt of the
\* user operation is in; a failure of the send or of the wait ends the run
\* at once with exit code 1, no signature requested and nothing submitted.
C19_ReceiptBeforeTradeSigning ==
    /\ [](userOps # <<>> =>
            /\ Len(userOps) = 1
            /\ (sigRequests # <<>> \/ StageOf(pc) \in 1..6) => receipts = 1)
    /\ [](error.message \in ApprovalFailures =>
            /\ pc = "aborted"
            /\ exitCode = 1
            /\ userOps # <<>>
            /\ receipts = 0
            /\ sigRequests = <<>>
            /\ submitted = <<>>
            /\ nStatus = 0)
    /\ [][(pc = "waitReceipt" /\ receipts' = receipts) =>
            (pc' = "aborted" /\ error'.message = "waitForUserOperationReceipt failed")]_vars
    /\ [][(pc = "approval" /\ userOps' # userOps /\ pc' # "waitReceipt") =>
            (pc' = "aborted" /\ error'.message = "sendUserOperation failed")]_vars

C19_Witness ==
    /\ userOps # <<>>
    /\ receipts = 1
    /\ TradeRequests = {1}
    /\ tradeSig # <<>>

\* the failing side of C19: the wait for the receipt threw
C19_AbortReached ==
    /\ pc = "aborted"
    /\ error.message = "waitForUserOperationReceipt failed"
    /\ sigRequests = <<>>

\* an entry of the submit body carries the payload of the quote it was built
\* from and an EIP712 signature in normalized form
EmbedsPayload(entry, payload) ==
    /\ entry.kind = "object"
    /\ entry.type = payload.type
    /\ entry.hash = payload.hash
    /\ entry.eip712 = payload.eip712
    /\ entry.signature.signatureType = EIP712
    /\ IsNormalized(entry.signature)

\* C20: every submit body carries the chain id and a trade entry with the
\* quote's trade payload and a normalized signature; its approval entry is an
\* object exactly when the quote carried an approval descriptor, and then it
\* embeds that descriptor and the normalized split of the permit signature;
\* otherwise it is null, in particular after an on-chain approval.
C20_SubmitBodyShape ==
    \A k \in DOMAIN submitted :
        /\ submitted[k].chainId = CHAIN_ID
        /\ EmbedsPayload(submitted[k].trade, quote.trade)
        /\ (submitted[k].approval.kind # "null") <=> Truthy(quote.approval)
        /\ Truthy(quote.approval) =>
              /\ EmbedsPayload(submitted[k].approval, quote.approval)
              /\ FromCompletedSplit(submitted[k].approval, "approval", approvalSig)
        /\ ~Truthy(quote.approval) => submitted[k].approval = NoSubmitData
        /\ userOps # <<>> => submitted[k].approval = NoSubmitData

C20_Witness ==
    /\ Len(submitted) = 1
    /\ submitted[1].approval.kind = "object"
    /\ submitted[1].approval.hash = PermitPayload.hash
    /\ submitted[1].trade.hash = TradePayload.hash
    /\ userOps = <<>>

\* the other side of C20: a submit after an on-chain approval
C20_OnchainSubmitReached ==
    /\ Len(submitted) = 1
    /\ userOps # <<>>
    /\ receipts = 1
    /\ submitted[1].approval.kind = "null"

\* the typed data of some signature request made with the given client
SignedWith(client) == {sigRequests[i].typedData : i \in {j \in DOMAIN sigRequests : sigRequests[j].client = client}}

\* an entry of the submit body repeats the three fields of a payload of the quote
SamePayload(entry, payload) ==
    /\ entry.type = payload.type
    /\ entry.hash = payload.hash
    /\ entry.eip712 = payload.eip712

\* C21: once received the quote is never assigned again; the trade entry of
\* every submit body, and its approval entry when there is one, repeat the
\* type, hash and eip712 of the quote's payload, and the eip712 submitted
\* with each signature is the typed data that signature was requested over.
C21_QuoteNotMutated ==
    /\ [][QuoteReceived => quote' = quote]_vars
    /\ [](\A i \in DOMAIN sigRequests :
            sigRequests[i].typedData \in {quote.trade.eip712, quote.approval.eip712})
    /\ [](\A k \in DOMAIN submitted :
            /\ SamePayload(submitted[k].trade, quote.trade)
            /\ SignedWith("smartAccountClient") = {submitted[k].trade.eip712}
            /\ submitted[k].approval.kind = "object" =>
                  /\ SamePayload(submitted[k].approval, quote.approval)
                  /\ SignedWith("walletClient") = {submitted[k].approval.eip712}
            /\ submitted[k].approval.kind # "object" => SignedWith("walletClient") = {})

C21_Witness ==
    /\ QuoteReceived
    /\ Len(submitted) = 1
    /\ Len(sigRequests) = 2
    /\ sigRequests[1].typedData = submitted[1].approval.eip712
    /\ sigRequests[2].typedData = submitted[1].trade.eip712
    /\ submitted[1].approval.eip712 # submitted[1].trade.eip712

\* the status request just made was answered, and the answer reads confirmed
AnsweredConfirmed ==
    /\ nStatus' = nStatus + 1
    /\ ResponseOk(lastResponse'.status)
    /\ lastStatus' \in ConfirmedSpellings

\* C22: confirmed is set exactly by a status answer that reads confirmed and
\* is never reset, no status request follows such an answer, so at every
\* point the run is confirmed iff one of its at most 60 status answers read
\* confirmed, which is then the last one; a run that ends reports confirmed
\* or not confirmed, never both, according to that alone, and an answer
\* reading confirmed on the 60th request ends the run as confirmed.
C22_OutcomeDecidedByResponses ==
    /\ [][/\ AnsweredConfirmed => confirmed'
          /\ (confirmed' /\ ~confirmed) => AnsweredConfirmed
          /\ confirmed => (confirmed' /\ nStatus' = nStatus /\ lastStatus' = lastStatus)]_vars
    /\ [](confirmed <=> (nStatus \in 1..maxAttempts /\ lastStatus \in ConfirmedSpellings))
    /\ [](pc = "done" =>
            /\ report \in {"confirmed", "notConfirmed"}
            /\ (report = "confirmed") <=> (lastStatus \in ConfirmedSpellings)
            /\ (report = "notConfirmed") <=>
                   (nStatus = maxAttempts /\ lastStatus \notin ConfirmedSpellings))
    /\ [][(nStatus = maxAttempts - 1 /\ AnsweredConfirmed) =>
            (confirmed' /\ report' = "confirmed")]_vars
    /\ [](pc = "done" /\ nStatus = maxAttempts /\ lastStatus \in ConfirmedSpellings =>
            OutcomeConfirmed)

C22_Witness ==
    /\ pc = "done"
    /\ attempts = maxAttempts
    /\ nStatus = maxAttempts
    /\ lastStatus \in ConfirmedSpellings
    /\ OutcomeConfirmed

====
